---- MODULE Spec2Model ----
(***************************************************************************)
(* Batching-and-dispatch pipeline of the rank tracker backend:             *)
(*   - POST /enqueue (server)            job_batches + tracking_results   *)
(*   - Bright Data worker  (polling)     one Pub/Sub message per shard    *)
(*   - DataForSEO worker   (callback)    one task per prompt + webhook    *)
(*   - nightly scheduler                 process-local run lock           *)
(* Every await on the store is one step of a handler, so that handlers of  *)
(* concurrent deliveries interleave exactly where the code can be          *)
(* suspended.                                                              *)
(***************************************************************************)
EXTENDS Integers, Sequences, FiniteSets, Bags, TLC

\* ------------------------------------------------------------------ bounds
MaxPrompts == 6        \* prompts of the submitted job
MaxDeliveries == 2     \* deliveries of one queue message
MaxCallbacks == 3      \* provider callbacks handled for one job
MaxCalledTasks == 1    \* tasks of the job the provider sends callbacks for
MaxActive == 2         \* handlers in flight at the same time
MaxRuns == 2           \* invocations of performNightlyRefresh
MaxProjects == 2       \* projects with enabled prompts
MaxTime == 3           \* clock ticks
MaxAge == 3            \* minute boundaries a cached provider is followed for
MaxWaiting == 2        \* callers awaiting the initialization at the same time
MaxBody == 21          \* prompts in the body of a POST /enqueue request
MaxShard == 2          \* prompts of the message whose notifications are followed
MaxResults == 2        \* entries of the result array of a snapshot
MaxPolls == 6          \* polls of one snapshot that is still running
MaxRounds == 2         \* probe rounds of updateActiveService followed

Runs == 1..MaxRuns
ProjectIds == 1..MaxProjects

Terminal == {"completed", "completed_with_errors", "failed"}

\* ------------------------------------------------------- pure helpers
\* the second threshold taken as < 10
getBatchSizeBelowTen(count) ==
  IF count < 5 THEN count ELSE IF count < 10 THEN 5 ELSE 10

\* Pick batch size: <5 => all, <=10 => 5, else => 10
getBatchSize(count) ==
  IF count < 5 THEN count ELSE IF count <= 10 THEN 5 ELSE 10

\* Math.ceil(prompts.length / batchSize)
totalBatchesFor(count) ==
  (count + getBatchSize(count) - 1) \div getBatchSize(count)

\* the index counted from 1
batchNumberFromOne(index, batchSize) == (index + 1) \div batchSize

\* Math.floor(index / batchSize), index counted from 0
batchNumberOf(index, batchSize) == index \div batchSize

VARIABLES
  svc,      \* service chosen by /enqueue: "none", "brightdata", "dataforseo"
  job,      \* the job_batches row of the submission
  tr,       \* tracking_results rows, 1..total_prompts
  msg,      \* Pub/Sub message of each shard: deliveries, state, nacked
  h,        \* bag of handlers in flight (message handlers, callback requests)
  tasks,    \* DataForSEO tasks submitted: <<row, delivery>>
  cbN,      \* callbacks received so far
  called,   \* history: tasks a callback was received for
  out,      \* last HTTP response of the callback route
  counted,  \* history: counter increments made on behalf of each shard
  mail,     \* history: completion emails sent for each shard
  isRefreshRunning, \* nightly lock
  run,      \* invocations of performNightlyRefresh
  now,      \* wall clock of the scheduler process, in ticks of 12 hours
  proj,     \* projects: scheduler_frequency, last_nightly_run_at
  published, \* history: <<invocation, project, time>> of each publish
  testIdsMissing, \* NIGHTLY_TESTING_MODE=true without the two test ids
  hc,       \* utils/activeService.js: module state of one process
  rq,       \* one POST /enqueue request of the server, step by step
  nm,       \* one queue message and the notifications sent for it
  wa,       \* one shard of the Bright Data worker matched with its results
  pb,       \* one probe round of updateActiveService, by provider answer
  rt        \* one call of retryWithBackoff, attempt by attempt

vars == <<svc, job, tr, msg, h, tasks, cbN, called, out, counted, mail,
          isRefreshRunning, run, now, proj, published, testIdsMissing, hc,
          rq, nm, wa, pb, rt>>

sideVars == <<hc, rq, nm, wa, pb, rt>>
pipeVars == <<svc, job, tr, msg, h, tasks, cbN, called, out, counted, mail,
             sideVars>>
nightVars == <<isRefreshRunning, run, now, proj, published, testIdsMissing,
               sideVars>>
baseVars == <<svc, job, tr, msg, h, tasks, cbN, called, out, counted, mail,
              isRefreshRunning, run, now, proj, published, testIdsMissing>>
coreVars == <<baseVars, nm, wa, pb, rt>>

\* ------------------------------------------------------------ handlers
\* a handler invocation before its first step
NewHandler ==
  [kind |-> "none", pc |-> "none", b |-> 0, r |-> 0, d |-> 0, i |-> 0,
   m |-> 0, err |-> "none", rdC |-> 0, rdF |-> 0, post |-> 0, ok |-> FALSE,
   replay |-> FALSE, late |-> FALSE]

Start(x) == BagCardinality(h) < MaxActive /\ h' = h (+) SetToBag({x})
Step(x, y) == h' = (h (-) SetToBag({x})) (+) SetToBag({y})
Finish(x) == h' = h (-) SetToBag({x})

NoJob ==
  [status |-> "none", total_prompts |-> 0, total_batches |-> 0,
   completed_batches |-> 0, failed_batches |-> 0, completed_at |-> 0]

NoOut == [code |-> 0, message |-> "none"]

\* no message published.  isNightly, jobBatchId, email, prompts: fields of
\* the payload (prompts: how many); tasks: DataForSEO tasks submitted, urlNightly: isNightly=true in
\* their callback URL; counted: completed_batches + failed_batches of the
\* job; rows: tracking_results created for the nightly prompts; mails: calls
\* of transporter.sendMail
NoMessage ==
  [pc |-> "none", isNightly |-> FALSE, jobBatchId |-> "null",
   email |-> "null", worker |-> "none", prompts |-> 0, deliveries |-> 0,
   tasks |-> 0,
   urlNightly |-> FALSE, callbacks |-> 0, counted |-> 0, rows |-> 0,
   mails |-> [submitted |-> 0, succeeded |-> 0, failed |-> 0]]

\* no request received: nothing inserted, nothing published, no response
NoRequest ==
  [pc |-> "idle", missing |-> "none", n |-> 0, service |-> "null",
   code |-> 0, error |-> "none", totalBatches |-> 0, job_batches |-> <<>>,
   prompts |-> <<>>, tracking_results |-> <<>>, batches |-> <<>>,
   sent |-> {}]

NoRun == [pc |-> "idle", startTime |-> 0, toRun |-> {}, cur |-> 0,
          solo |-> FALSE, lost |-> {}, log |-> "none"]

\* rows of shard b, and the row at offset i of shard b
BatchSize == getBatchSize(job.total_prompts)
ShardRows(b) == {r \in DOMAIN tr : tr[r].batch_number = b}
ShardLen(b) == Cardinality(ShardRows(b))
RowAt(b, i) == b * BatchSize + i + 1

Sum(j) == j.completed_batches + j.failed_batches

\* no shard being matched, no probe round, no retried call
NoShard ==
  [pc |-> "none", isNightly |-> FALSE, prompts |-> <<>>, results |-> <<>>,
   i |-> 0, processedPromptIds |-> {}, rows |-> <<>>, inserted |-> <<>>]
NoProbe ==
  [pc |-> "none", activeService |-> "null",
   dataforseo |-> [status |-> 0, status_code |-> 0],
   brightdata |-> [status |-> 0, status_code |-> 0],
   probed |-> {}, rounds |-> 0]
NoRetry ==
  [pc |-> "none", call |-> "none", i |-> 0, attempts |-> 0, waits |-> <<>>,
   lastErr |-> "none"]

PipelineInit ==
  /\ svc = "none"
  /\ job = NoJob
  /\ tr = [r \in {} |-> 0]
  /\ msg = [b \in {} |-> 0]
  /\ h = EmptyBag
  /\ tasks = {}
  /\ cbN = 0
  /\ called = {}
  /\ out = NoOut
  /\ counted = [b \in {} |-> 0]
  /\ mail = [b \in {} |-> 0]

SchedulerInit ==
  /\ isRefreshRunning = FALSE
  /\ run = [n \in Runs |-> NoRun]
  /\ now = 1
  /\ published = {}

Providers == {"dataforseo", "brightdata"}

\* activeService.js at module load: activeService = null, isInitialized =
\* false, initializationPromise = null; monitors: the process calls
\* startMonitoring() when it loads (the server does, the scheduler does not)
ColdCache(monitors) ==
  [activeService |-> "null", isInitialized |-> FALSE,
   initializationPromise |-> "null", monitors |-> monitors,
   started |-> FALSE, cron |-> FALSE, pc |-> "idle", init |-> FALSE,
   waiting |-> 0, rounds |-> 0, served |-> 0, lastProbe |-> [p \in Providers |-> "none"],
   age |-> 0, got |-> [value |-> "none", probe |-> "none", age |-> 0]]

\* the pipeline, in a process whose scheduler has nothing to run
Init ==
  /\ PipelineInit
  /\ SchedulerInit
  /\ hc = ColdCache(TRUE)
  /\ rq = NoRequest
  /\ nm = NoMessage
  /\ wa = NoShard
  /\ pb = NoProbe
  /\ rt = NoRetry
  /\ proj = [p \in ProjectIds |->
              [scheduler_frequency |-> "null", last_nightly_run_at |-> 0]]
  /\ testIdsMissing = FALSE

\* the scheduler, over projects that never ran
InitNightly ==
  /\ PipelineInit
  /\ SchedulerInit
  /\ hc = ColdCache(FALSE)
  /\ rq = NoRequest
  /\ nm = NoMessage
  /\ wa = NoShard
  /\ pb = NoProbe
  /\ rt = NoRetry
  /\ proj \in [ProjectIds ->
                [scheduler_frequency : {"null", "daily"},
                 last_nightly_run_at : {0}]]
  /\ testIdsMissing \in BOOLEAN

\* ------------------------------------------------------- POST /enqueue
\* a column that holds null
Null == -1

\* the scores an update writes to a row
WithScores(row, sentiment, salience, mention_count) ==
  [row EXCEPT !.sentiment = sentiment, !.salience = salience,
              !.mention_count = mention_count]

\* buildBulkData: the stub of prompt r of n
Stub(r, n) ==
  [status |-> "pending",
   batch_number |-> batchNumberOf(r - 1, getBatchSize(n)),
   snapshot_id |-> 0, sentiment |-> Null, salience |-> Null,
   mention_count |-> Null]

\* Success path of the route: job row inserted pending, stubs inserted,
\* job set to processing, one message published per shard.
Enqueue(n, service) ==
  /\ job.status = "none"
  /\ svc' = service
  /\ job' = [status |-> "processing", total_prompts |-> n,
             total_batches |-> totalBatchesFor(n),
             completed_batches |-> 0, failed_batches |-> 0,
             completed_at |-> 0]
  /\ tr' = [r \in 1..n |-> Stub(r, n)]
  /\ msg' = [b \in 0..(totalBatchesFor(n) - 1) |->
              [deliveries |-> 0, state |-> "queued", nacked |-> FALSE]]
  /\ counted' = [b \in 0..(totalBatchesFor(n) - 1) |-> 0]
  /\ mail' = [b \in 0..(totalBatchesFor(n) - 1) |->
               [succeeded |-> 0, failed |-> 0]]
  /\ UNCHANGED <<h, tasks, cbN, called, out, nightVars>>

\* The job row is inserted (status pending); the bulk insert of the prompts
\* or of the tracking results returns an error; the catch answers 500.
EnqueueInsertFails(n) ==
  /\ job.status = "none"
  /\ job' = [status |-> "pending", total_prompts |-> n,
             total_batches |-> totalBatchesFor(n),
             completed_batches |-> 0, failed_batches |-> 0,
             completed_at |-> 0]
  /\ out' = [code |-> 500, message |-> "Failed to insert"]
  /\ UNCHANGED <<svc, tr, msg, h, tasks, cbN, called, counted, mail,
                 nightVars>>

\* ------------------------------------------------- job batch counters
\* select completed_batches, total_batches, failed_batches
ReadJob(x, nextInc, nextSkip) ==
  Step(x, [x EXCEPT !.rdC = job.completed_batches,
                    !.rdF = job.failed_batches,
                    !.pc = IF Sum(job) < job.total_batches
                              THEN nextInc ELSE nextSkip])

\* increment_completed_batches / increment_failed_batches (atomic UPDATE)
increment_completed_batches(j) ==
  [j EXCEPT !.completed_batches = @ + 1]
increment_failed_batches(j) ==
  [j EXCEPT !.failed_batches = @ + 1]

\* newTotal >= total_batches, newTotal computed from the values read
ReachesTotal(x) == x.rdC + x.rdF + 1 >= job.total_batches

\* finalStatus on the success path / on the failure path
finalStatusSuccess(failedRead) ==
  IF failedRead > 0 THEN "completed_with_errors" ELSE "completed"
finalStatusFailure(completedRead) ==
  IF completedRead > 0 THEN "completed_with_errors" ELSE "failed"

WriteTerminal(st) ==
  job' = [job EXCEPT !.status = st, !.completed_at = @ + 1]

\* --------------------------------------------- Bright Data worker
\* A message is delivered when it is published and again after each nack.
Deliverable(b) ==
  /\ b \in DOMAIN msg
  /\ msg[b].state = "queued"
  /\ msg[b].deliveries < MaxDeliveries

Deliver(b) ==
  msg' = [msg EXCEPT ![b].deliveries = @ + 1, ![b].state = "delivered"]

Ack(b) == msg' = [msg EXCEPT ![b].state = "acked"]
Nack(b) == msg' = [msg EXCEPT ![b].state = "queued", ![b].nacked = TRUE]

\* subscription.on('message') with data that JSON.parse rejects: the handler
\* throws before its try block, the message is neither acked nor nacked
ReceiveUnparseable(b) ==
  /\ Deliverable(b)
  /\ Deliver(b)
  /\ UNCHANGED <<svc, job, tr, h, tasks, cbN, called, out, counted, mail,
                 nightVars>>

\* subscription.on('message'): a delivery of the message of shard b
A_Receive(b) ==
  /\ svc = "brightdata"
  /\ Deliverable(b)
  /\ Deliver(b)
  /\ Start([NewHandler EXCEPT !.kind = "A", !.b = b,
                              !.d = msg[b].deliveries + 1,
                              !.pc = "poll"])
  /\ UNCHANGED <<svc, job, tr, tasks, cbN, called, out, counted, mail, nightVars>>

\* trigger + poll: a result array matching the first m prompts of the
\* shard, or a throw (empty array, snapshot failed, HTTP error)
A_Poll(x) ==
  /\ x.kind = "A" /\ x.pc = "poll"
  /\ \/ \E m \in 0..ShardLen(x.b) :
          Step(x, [x EXCEPT !.m = m, !.i = 0,
                            !.pc = IF m > 0 THEN "result" ELSE "unprocessed"])
     \/ \E e \in {"ECONNRESET", "empty results"} :
          Step(x, [x EXCEPT !.err = e, !.pc = "catchMark"])
  /\ UNCHANGED <<svc, job, tr, msg, tasks, cbN, called, out, counted, mail, nightVars>>

\* the errors an LLM call fails with
LlmErrors == {"status 429", "timeout"}

\* retryWithBackoff after its last attempt:
\* throw new Error(`${label} failed after ${maxRetries} retries: ${message}`)
retryWithBackoff(e) ==
  IF e = "status 429" THEN "failed after 5 retries: status 429"
  ELSE "failed after 5 retries: timeout"

\* one iteration of `for (let bres of results)`: analysis, then the
\* update of the stub to fulfilled; or a throw out of the loop
A_Result(x) ==
  /\ x.kind = "A" /\ x.pc = "result"
  /\ \/ /\ tr' = [tr EXCEPT ![RowAt(x.b, x.i)] =
                      WithScores([@ EXCEPT !.status = "fulfilled",
                                           !.snapshot_id = x.d],
                                 80, 60, 1)]
        /\ Step(x, [x EXCEPT !.i = @ + 1,
                             !.pc = IF x.i + 1 < x.m THEN "result"
                                       ELSE IF x.m < ShardLen(x.b)
                                            THEN "unprocessed" ELSE "readJob"])
     \/ /\ \E e \in LlmErrors :
            Step(x, [x EXCEPT !.err = retryWithBackoff(e),
                              !.pc = "catchMark"])
        /\ UNCHANGED tr
  /\ UNCHANGED <<svc, job, msg, tasks, cbN, called, out, counted, mail, nightVars>>

\* unprocessed prompts: stub marked failed, one update per prompt
A_Unprocessed(x) ==
  /\ x.kind = "A" /\ x.pc = "unprocessed"
  /\ tr' = [tr EXCEPT ![RowAt(x.b, x.i)] =
                WithScores([@ EXCEPT !.status = "failed",
                                     !.snapshot_id = x.d], 0, 0, 0)]
  /\ Step(x, [x EXCEPT !.i = @ + 1,
                       !.pc = IF x.i + 1 < ShardLen(x.b)
                                 THEN "unprocessed" ELSE "readJob"])
  /\ UNCHANGED <<svc, job, msg, tasks, cbN, called, out, counted, mail, nightVars>>

A_ReadJob(x) ==
  /\ x.kind = "A" /\ x.pc = "readJob"
  /\ ReadJob(x, "inc", "ack")
  /\ UNCHANGED <<svc, job, tr, msg, tasks, cbN, called, out, counted, mail, nightVars>>

A_Increment(x) ==
  /\ x.kind = "A" /\ x.pc = "inc"
  /\ job' = increment_completed_batches(job)
  /\ counted' = [counted EXCEPT ![x.b] = @ + 1]
  /\ Step(x, [x EXCEPT !.post = Sum(job) + 1,
                       !.pc = IF ReachesTotal(x) THEN "final" ELSE "ack"])
  /\ UNCHANGED <<svc, tr, msg, tasks, cbN, called, out, mail, nightVars>>

A_Final(x) ==
  /\ x.kind = "A" /\ x.pc = "final"
  /\ WriteTerminal(finalStatusSuccess(x.rdF))
  /\ Step(x, [x EXCEPT !.pc = "ack"])
  /\ UNCHANGED <<svc, tr, msg, tasks, cbN, called, out, counted, mail, nightVars>>

\* select id from tracking_results where snapshot_id = actualSnapshotID
existingEmail(x) ==
  \E r \in ShardRows(x.b) : tr[r].snapshot_id = x.d

\* success email if (existingEmail), then message.ack()
A_Ack(x) ==
  /\ x.kind = "A" /\ x.pc = "ack"
  /\ mail' = IF existingEmail(x)
             THEN [mail EXCEPT ![x.b].succeeded = @ + 1] ELSE mail
  /\ Ack(x.b)
  /\ Finish(x)
  /\ UNCHANGED <<svc, job, tr, tasks, cbN, called, out, counted, nightVars>>

\* catch block: every row of (job_batch_id, batch_number) set to failed
A_CatchMark(x) ==
  /\ x.kind = "A" /\ x.pc = "catchMark"
  /\ tr' = [r \in DOMAIN tr |->
              IF tr[r].batch_number = x.b
              THEN [tr[r] EXCEPT !.status = "failed"] ELSE tr[r]]
  /\ Step(x, [x EXCEPT !.pc = "catchRead"])
  /\ UNCHANGED <<svc, job, msg, tasks, cbN, called, out, counted, mail, nightVars>>

A_CatchRead(x) ==
  /\ x.kind = "A" /\ x.pc = "catchRead"
  /\ ReadJob(x, "catchInc", "settle")
  /\ UNCHANGED <<svc, job, tr, msg, tasks, cbN, called, out, counted, mail, nightVars>>

A_CatchIncrement(x) ==
  /\ x.kind = "A" /\ x.pc = "catchInc"
  /\ job' = increment_failed_batches(job)
  /\ counted' = [counted EXCEPT ![x.b] = @ + 1]
  /\ Step(x, [x EXCEPT !.post = Sum(job) + 1,
                       !.pc = IF ReachesTotal(x) THEN "catchFinal" ELSE "settle"])
  /\ UNCHANGED <<svc, tr, msg, tasks, cbN, called, out, mail, nightVars>>

A_CatchFinal(x) ==
  /\ x.kind = "A" /\ x.pc = "catchFinal"
  /\ WriteTerminal(finalStatusFailure(x.rdC))
  /\ Step(x, [x EXCEPT !.pc = "settle"])
  /\ UNCHANGED <<svc, tr, msg, tasks, cbN, called, out, counted, mail, nightVars>>

\* err.status, err.code and the words of err.message of each error
StatusOf(e) == IF e = "status 429" THEN 429 ELSE 0
CodeOf(e) == IF e = "ECONNRESET" THEN "ECONNRESET" ELSE "none"
MessageIncludes(e, word) ==
  /\ word = "timeout"
  /\ e \in {"timeout", "failed after 5 retries: timeout"}

isRetryableError(e) ==
  \/ StatusOf(e) = 429
  \/ StatusOf(e) >= 500
  \/ CodeOf(e) = "ECONNRESET"
  \/ CodeOf(e) = "ETIMEDOUT"
  \/ MessageIncludes(e, "network")
  \/ MessageIncludes(e, "timeout")

\* failure email, then isRetryableError ? message.nack() : message.ack()
A_Settle(x) ==
  /\ x.kind = "A" /\ x.pc = "settle"
  /\ mail' = [mail EXCEPT ![x.b].failed = @ + 1]
  /\ IF isRetryableError(x.err) THEN Nack(x.b) ELSE Ack(x.b)
  /\ Finish(x)
  /\ UNCHANGED <<svc, job, tr, tasks, cbN, called, out, counted, nightVars>>

WorkerA ==
  \/ \E x \in BagToSet(h) : A_Poll(x)
  \/ \E x \in BagToSet(h) : A_Result(x)
  \/ \E x \in BagToSet(h) : A_Unprocessed(x)
  \/ \E x \in BagToSet(h) : A_ReadJob(x)
  \/ \E x \in BagToSet(h) : A_Increment(x)
  \/ \E x \in BagToSet(h) : A_Final(x)
  \/ \E x \in BagToSet(h) : A_Ack(x)
  \/ \E x \in BagToSet(h) : A_CatchMark(x)
  \/ \E x \in BagToSet(h) : A_CatchRead(x)
  \/ \E x \in BagToSet(h) : A_CatchIncrement(x)
  \/ \E x \in BagToSet(h) : A_CatchFinal(x)
  \/ \E x \in BagToSet(h) : A_Settle(x)

\* --------------------------------------------- DataForSEO worker
B_Receive(b) ==
  /\ svc = "dataforseo"
  /\ Deliverable(b)
  /\ Deliver(b)
  /\ Start([NewHandler EXCEPT !.kind = "B", !.b = b,
                              !.d = msg[b].deliveries + 1,
                              !.pc = "submit"])
  /\ UNCHANGED <<svc, job, tr, tasks, cbN, called, out, counted, mail, nightVars>>

\* processPrompt: submitDataForSeoTask returns a task id, or throws
B_Submit(x) ==
  /\ x.kind = "B" /\ x.pc = "submit"
  /\ \/ /\ tasks' = tasks \cup {<<RowAt(x.b, x.i), x.d>>}
        /\ Step(x, [x EXCEPT !.pc = "stamp"])
     \/ /\ Step(x, [x EXCEPT !.pc = "promptFailure"])
        /\ UNCHANGED tasks
  /\ UNCHANGED <<svc, job, tr, msg, cbN, called, out, counted, mail, nightVars>>

\* updateTrackingResult(trackingId, {snapshot_id: taskId, status: processing})
B_Stamp(x) ==
  /\ x.kind = "B" /\ x.pc = "stamp"
  /\ tr' = [tr EXCEPT ![RowAt(x.b, x.i)].status = "processing",
                      ![RowAt(x.b, x.i)].snapshot_id = x.d]
  /\ Step(x, [x EXCEPT !.i = @ + 1,
                       !.pc = IF x.i + 1 < ShardLen(x.b)
                                 THEN "submit" ELSE "status"])
  /\ UNCHANGED <<svc, job, msg, tasks, cbN, called, out, counted, mail, nightVars>>

\* handlePromptFailure: the stub of the prompt is marked failed
B_PromptFailure(x) ==
  /\ x.kind = "B" /\ x.pc = "promptFailure"
  /\ tr' = [tr EXCEPT ![RowAt(x.b, x.i)].status = "failed"]
  /\ Step(x, [x EXCEPT !.i = @ + 1,
                       !.pc = IF x.i + 1 < ShardLen(x.b)
                                 THEN "submit" ELSE "status"])
  /\ UNCHANGED <<svc, job, msg, tasks, cbN, called, out, counted, mail, nightVars>>

\* updateJobBatchStatus(jobBatchId, "processing")
updateJobBatchStatus(j, status) == [j EXCEPT !.status = status]

B_Status(x) ==
  /\ x.kind = "B" /\ x.pc = "status"
  /\ job' = updateJobBatchStatus(job, "processing")
  /\ Step(x, [x EXCEPT !.pc = "ack"])
  /\ UNCHANGED <<svc, tr, msg, tasks, cbN, called, out, counted, mail, nightVars>>

\* submission email, then message.ack()
B_Ack(x) ==
  /\ x.kind = "B" /\ x.pc = "ack"
  /\ Ack(x.b)
  /\ Finish(x)
  /\ UNCHANGED <<svc, job, tr, tasks, cbN, called, out, counted, mail, nightVars>>

WorkerB ==
  \/ \E x \in BagToSet(h) : B_Submit(x)
  \/ \E x \in BagToSet(h) : B_Stamp(x)
  \/ \E x \in BagToSet(h) : B_PromptFailure(x)
  \/ \E x \in BagToSet(h) : B_Status(x)
  \/ \E x \in BagToSet(h) : B_Ack(x)

\* ----------------------------- POST /api/dataforseo/callback
Respond(x, code, message) ==
  /\ Finish(x)
  /\ out' = [code |-> code, message |-> message]

\* history: the row of task t is fulfilled
Fulfilled(t) ==
  /\ tr[t[1]].status = "fulfilled"
  /\ tr[t[1]].snapshot_id = t[2]

\* history: a success callback of task t has been handled to its end
Handled(t) ==
  /\ Fulfilled(t)
  /\ \A y \in BagToSet(h) : ~(y.kind = "cb" /\ y.r = t[1])

\* a callback for a submitted task arrives (the provider may repeat it);
\* ok: status_code 20000 with a non-empty result
Cb_Receive(t, ok) ==
  /\ t \in tasks
  /\ cbN < MaxCallbacks
  /\ t \in called \/ Cardinality(called) < MaxCalledTasks
  /\ cbN' = cbN + 1
  /\ called' = called \cup {t}
  /\ Start([NewHandler EXCEPT !.kind = "cb", !.r = t[1],
                              !.d = t[2], !.ok = ok,
                              !.replay = ok /\ Handled(t),
                              !.late = ~ok /\ Fulfilled(t),
                              !.pc = "lookup"])
  /\ UNCHANGED <<svc, job, tr, msg, tasks, out, counted, mail, nightVars>>

\* select * from tracking_results where snapshot_id = taskId; on the
\* success branch performSentimentAnalysis follows: its retryWithBackoff
\* returns scores or throws after the last attempt
Cb_Lookup(x) ==
  /\ x.kind = "cb" /\ x.pc = "lookup"
  /\ IF tr[x.r].snapshot_id = x.d
     THEN /\ IF x.ok
             THEN \/ Step(x, [x EXCEPT !.pc = "fulfil"])
                  \/ Step(x, [x EXCEPT !.pc = "fulfil",
                                       !.err = retryWithBackoff("status 429")])
             ELSE Step(x, [x EXCEPT !.pc = "check"])
          /\ UNCHANGED out
     ELSE Respond(x, 404, "Tracking result not found")
  /\ UNCHANGED <<svc, job, tr, msg, tasks, cbN, called, counted, mail, nightVars>>

\* performSentimentAnalysis: the scores of the analysis, or
\* { sentiment: 0, salience: 0 } from its catch
performSentimentAnalysis(e) ==
  IF e = "none" THEN [sentiment |-> 80, salience |-> 60]
  ELSE [sentiment |-> 0, salience |-> 0]

\* success branch: update of the row to fulfilled
Cb_Fulfil(x) ==
  /\ x.kind = "cb" /\ x.pc = "fulfil"
  /\ tr' = [tr EXCEPT ![x.r] =
                WithScores([@ EXCEPT !.status = "fulfilled"],
                           performSentimentAnalysis(x.err).sentiment,
                           performSentimentAnalysis(x.err).salience, 1)]
  /\ Step(x, [x EXCEPT !.pc = "progRead", !.err = "none"])
  /\ UNCHANGED <<svc, job, msg, tasks, cbN, called, out, counted, mail, nightVars>>

\* handleJobBatchProgress
Cb_ProgressRead(x) ==
  /\ x.kind = "cb" /\ x.pc = "progRead"
  /\ IF Sum(job) < job.total_batches
     THEN /\ ReadJob(x, "progInc", "progInc")
          /\ UNCHANGED out
     ELSE Respond(x, 200, "processed successfully")
  /\ UNCHANGED <<svc, job, tr, msg, tasks, cbN, called, counted, mail, nightVars>>

Cb_ProgressIncrement(x) ==
  /\ x.kind = "cb" /\ x.pc = "progInc"
  /\ job' = increment_completed_batches(job)
  /\ counted' = [counted EXCEPT ![tr[x.r].batch_number] = @ + 1]
  /\ IF ReachesTotal(x)
     THEN /\ Step(x, [x EXCEPT !.post = Sum(job) + 1, !.pc = "progFinal"])
          /\ UNCHANGED out
     ELSE Respond(x, 200, "processed successfully")
  /\ UNCHANGED <<svc, tr, msg, tasks, cbN, called, mail, nightVars>>

\* final status, then the completion email
Cb_ProgressFinal(x) ==
  /\ x.kind = "cb" /\ x.pc = "progFinal"
  /\ WriteTerminal(finalStatusSuccess(x.rdF))
  /\ mail' = [mail EXCEPT ![tr[x.r].batch_number].succeeded = @ + 1]
  /\ Respond(x, 200, "processed successfully")
  /\ UNCHANGED <<svc, tr, msg, tasks, cbN, called, counted, nightVars>>

\* failure branch: "Check current status to avoid downgrading fulfilled
\* records"
LateFailure(status) == status = "fulfilled"

Cb_Check(x) ==
  /\ x.kind = "cb" /\ x.pc = "check"
  /\ IF LateFailure(tr[x.r].status)
     THEN Respond(x, 200, "already fulfilled; ignoring late failure")
     ELSE /\ Step(x, [x EXCEPT !.pc = "failWrite"])
          /\ UNCHANGED out
  /\ UNCHANGED <<svc, job, tr, msg, tasks, cbN, called, counted, mail, nightVars>>

Cb_FailWrite(x) ==
  /\ x.kind = "cb" /\ x.pc = "failWrite"
  /\ tr' = [tr EXCEPT ![x.r] = WithScores([@ EXCEPT !.status = "failed"],
                                          0, 0, 0)]
  /\ Step(x, [x EXCEPT !.pc = "failRead"])
  /\ UNCHANGED <<svc, job, msg, tasks, cbN, called, out, counted, mail, nightVars>>

\* handleFailedJobBatch
Cb_FailedRead(x) ==
  /\ x.kind = "cb" /\ x.pc = "failRead"
  /\ IF Sum(job) < job.total_batches
     THEN /\ ReadJob(x, "failInc", "failInc")
          /\ UNCHANGED out
     ELSE Respond(x, 200, "processed with error")
  /\ UNCHANGED <<svc, job, tr, msg, tasks, cbN, called, counted, mail, nightVars>>

Cb_FailedIncrement(x) ==
  /\ x.kind = "cb" /\ x.pc = "failInc"
  /\ job' = increment_failed_batches(job)
  /\ counted' = [counted EXCEPT ![tr[x.r].batch_number] = @ + 1]
  /\ IF ReachesTotal(x)
     THEN /\ Step(x, [x EXCEPT !.post = Sum(job) + 1, !.pc = "failFinal"])
          /\ UNCHANGED out
     ELSE Respond(x, 200, "processed with error")
  /\ UNCHANGED <<svc, tr, msg, tasks, cbN, called, mail, nightVars>>

Cb_FailedFinal(x) ==
  /\ x.kind = "cb" /\ x.pc = "failFinal"
  /\ WriteTerminal(finalStatusFailure(x.rdC))
  /\ Respond(x, 200, "processed with error")
  /\ UNCHANGED <<svc, tr, msg, tasks, cbN, called, counted, mail, nightVars>>

Callback ==
  \/ \E x \in BagToSet(h) : Cb_Lookup(x)
  \/ \E x \in BagToSet(h) : Cb_Fulfil(x)
  \/ \E x \in BagToSet(h) : Cb_ProgressRead(x)
  \/ \E x \in BagToSet(h) : Cb_ProgressIncrement(x)
  \/ \E x \in BagToSet(h) : Cb_ProgressFinal(x)
  \/ \E x \in BagToSet(h) : Cb_Check(x)
  \/ \E x \in BagToSet(h) : Cb_FailWrite(x)
  \/ \E x \in BagToSet(h) : Cb_FailedRead(x)
  \/ \E x \in BagToSet(h) : Cb_FailedIncrement(x)
  \/ \E x \in BagToSet(h) : Cb_FailedFinal(x)

Next ==
  \/ \E n \in 1..MaxPrompts, service \in {"brightdata", "dataforseo"} :
       Enqueue(n, service)
  \/ \E n \in 1..MaxPrompts : EnqueueInsertFails(n)
  \/ \E b \in 0..(MaxPrompts - 1) : ReceiveUnparseable(b)
  \/ \E b \in 0..(MaxPrompts - 1) : A_Receive(b)
  \/ \E b \in 0..(MaxPrompts - 1) : B_Receive(b)
  \/ \E t \in tasks, ok \in BOOLEAN : Cb_Receive(t, ok)
  \/ WorkerA
  \/ WorkerB
  \/ Callback

Spec == Init /\ [][Next]_vars

\* ------------------------------------------------- nightly scheduler
\* 24 * 60 * 60 * 1000 ms, in clock ticks
dayInMs == 2

\* shouldRunForProject(frequency, lastRunAt); 0 stands for a null lastRunAt
shouldRunForProject(frequency, lastRunAt, t) ==
  IF frequency = "null" THEN FALSE
  ELSE IF lastRunAt = 0 THEN TRUE
  ELSE IF frequency = "daily" THEN t - lastRunAt >= dayInMs
  ELSE IF frequency = "weekly" THEN t - lastRunAt >= 7 * dayInMs
  ELSE IF frequency = "monthly" THEN t - lastRunAt >= 30 * dayInMs
  ELSE FALSE

Tick ==
  /\ now < MaxTime
  /\ now' = now + 1
  /\ UNCHANGED <<pipeVars, isRefreshRunning, run, proj, published,
                 testIdsMissing>>

\* performNightlyRefresh is entered (cron tick or testNightlyRefreshNow):
\* `if (isRefreshRunning) return;`
InProgress(n) == run[n].pc \in {"topic", "fetch", "projects", "stamp", "finally"}

N_Invoke(n) ==
  /\ run[n].pc = "idle"
  /\ \A j \in 1..(n - 1) : run[j].pc # "idle"
  /\ run' = [run EXCEPT ![n].pc = IF isRefreshRunning THEN "skipped"
                                  ELSE "topic",
                        ![n].solo = \A j \in Runs : ~InProgress(j)]
  /\ UNCHANGED <<pipeVars, isRefreshRunning, now, proj, published,
                 testIdsMissing>>

\* `await getTopicForActiveService()` resolves; without a topic the run
\* halts, otherwise the lock is set and the start time taken.  In testing
\* mode without the test ids the lock is given back at once.
N_Topic(n) ==
  /\ run[n].pc = "topic"
  /\ \/ /\ run' = [run EXCEPT ![n].pc = "halted"]
        /\ UNCHANGED isRefreshRunning
     \/ /\ ~testIdsMissing
        /\ isRefreshRunning' = TRUE
        /\ run' = [run EXCEPT ![n].pc = "fetch", ![n].startTime = now]
     \/ /\ testIdsMissing
        /\ isRefreshRunning' = FALSE
        /\ run' = [run EXCEPT ![n].pc = "aborted", ![n].startTime = now]
  /\ UNCHANGED <<pipeVars, now, proj, published, testIdsMissing>>

\* projects with enabled prompts are fetched, then the user's projects with
\* a scheduler_frequency; projectsToRun is computed from what was read.
\* An empty result or a thrown error leaves through `finally`.
N_Fetch(n) ==
  /\ run[n].pc = "fetch"
  /\ \/ run' = [run EXCEPT ![n].pc = "finally"]
     \/ run' = [run EXCEPT ![n].pc = "projects",
                  ![n].toRun = {p \in ProjectIds :
                     shouldRunForProject(proj[p].scheduler_frequency,
                                         proj[p].last_nightly_run_at, now)}]
  /\ UNCHANGED <<pipeVars, isRefreshRunning, now, proj, published,
                 testIdsMissing>>

\* one project of projectsToRun: its shards are handed to the publisher,
\* then updateLastNightlyRun(project.id, startTime) is awaited.  A publish
\* that throws is logged in the catch of its batch (run[n].lost: the
\* projects it happened to).
N_Publish(n) ==
  /\ run[n].pc = "projects"
  /\ run[n].toRun # {}
  /\ LET p == CHOOSE q \in run[n].toRun : \A o \in run[n].toRun : q <= o
     IN /\ published' = published \cup {<<n, p, now>>}
        /\ \E failed \in BOOLEAN :
             run' = [run EXCEPT ![n].toRun = @ \ {p}, ![n].cur = p,
                                ![n].pc = "stamp",
                                ![n].lost = IF failed THEN @ \cup {p} ELSE @]
  /\ UNCHANGED <<pipeVars, isRefreshRunning, now, proj, testIdsMissing>>

\* the time of the update taken as the timestamp
updateWithNow(P, p, timestamp) ==
  [P EXCEPT ![p].last_nightly_run_at = now]

\* update projects set last_nightly_run_at = timestamp where id = projectId
updateLastNightlyRun(P, p, timestamp) ==
  [P EXCEPT ![p].last_nightly_run_at = timestamp]

\* await updateLastNightlyRun(project.id, startTime): an error of the
\* update is logged and the run goes on (run[n].log: what was logged)
N_Stamp(n) ==
  /\ run[n].pc = "stamp"
  /\ \E error \in BOOLEAN :
       /\ proj' = IF error THEN proj
                  ELSE updateLastNightlyRun(proj, run[n].cur,
                                            run[n].startTime)
       /\ run' = [run EXCEPT ![n].pc = "projects", ![n].cur = 0,
                             ![n].log = IF error THEN "Failed to update"
                                        ELSE "Updated"]
  /\ UNCHANGED <<pipeVars, isRefreshRunning, now, published, testIdsMissing>>

N_EndLoop(n) ==
  /\ run[n].pc = "projects"
  /\ run[n].toRun = {}
  /\ run' = [run EXCEPT ![n].pc = "finally"]
  /\ UNCHANGED <<pipeVars, isRefreshRunning, now, proj, published,
                 testIdsMissing>>

\* a finally that leaves the lock as it is
N_FinallyKeepsLock(n) ==
  /\ run[n].pc = "finally"
  /\ run' = [run EXCEPT ![n].pc = "done"]
  /\ UNCHANGED <<pipeVars, isRefreshRunning, now, proj, published,
                 testIdsMissing>>

\* finally { isRefreshRunning = false }
N_Finally(n) ==
  /\ run[n].pc = "finally"
  /\ isRefreshRunning' = FALSE
  /\ run' = [run EXCEPT ![n].pc = "done"]
  /\ UNCHANGED <<pipeVars, now, proj, published, testIdsMissing>>

performNightlyRefresh(n) ==
  \/ N_Invoke(n)
  \/ N_Topic(n)
  \/ N_Fetch(n)
  \/ N_Publish(n)
  \/ N_Stamp(n)
  \/ N_EndLoop(n)
  \/ N_Finally(n)

\* the scheduler process stops while a run is in progress and is started
\* again: the runs in progress end where they are, the lock is initialised
Restart ==
  /\ \E n \in Runs : InProgress(n)
  /\ run' = [n \in Runs |->
               IF InProgress(n) THEN [run[n] EXCEPT !.pc = "crashed"]
               ELSE run[n]]
  /\ isRefreshRunning' = FALSE
  /\ UNCHANGED <<pipeVars, now, proj, published, testIdsMissing>>

NextNightly ==
  \/ Tick
  \/ \E n \in Runs : performNightlyRefresh(n)
  \/ Restart

SpecNightly == InitNightly /\ [][NextNightly]_vars

\* ------------------------------------------------------------ claims
\* handler x takes this step / takes this step and returns
Acts(x) == CopiesIn(x, h') < CopiesIn(x, h)
Returns(x) == Acts(x) /\ BagCardinality(h') < BagCardinality(h)

\* handler x writes the final status of the job in this step
FinalPcs == {"final", "catchFinal", "progFinal", "failFinal"}
WritesFinal(x) == x.pc \in FinalPcs /\ Acts(x)

\* C1: completed_batches + failed_batches <= total_batches in every
\* reachable state
CountersWithinTotal ==
  Sum(job) <= job.total_batches

\* C2: completed_batches + failed_batches = total_batches exactly when the
\* status of the job is terminal; stated for the states in which no handler
\* is in flight, so that no write of a handler is still to come
SumEqualsTotalIffTerminal ==
  (job.status # "none" /\ h = EmptyBag) =>
    ((Sum(job) = job.total_batches) <=> (job.status \in Terminal))

\* C3: a terminal status is written only by the handler whose increment
\* made completed_batches + failed_batches equal to total_batches
OnlyCompletingIncrementWritesFinal ==
  [][\A x \in BagToSet(h) :
       WritesFinal(x) => x.post = job.total_batches]_vars

\* C4: a success callback delivered again, after an earlier delivery of it
\* was handled to its end, leaves (completed_batches, failed_batches,
\* status, completed_at) as that delivery left them
JobTuple(j) ==
  <<j.completed_batches, j.failed_batches, j.status, j.completed_at>>

ReplayKeepsJob ==
  [][\A x \in BagToSet(h) :
       (x.replay /\ Acts(x)) => JobTuple(job') = JobTuple(job)]_vars

\* C5: a shard whose message was nacked is counted at most once across
\* completed_batches and failed_batches
NackedShardCountedOnce ==
  \A b \in DOMAIN msg : msg[b].nacked => counted[b] <= 1

\* C6: tracking_results status only moves pending -> processing ->
\* {fulfilled, failed}; a fulfilled or failed row keeps its status
Forward(old, new) ==
  \/ old = new
  \/ old = "pending" /\ new \in {"processing", "fulfilled", "failed"}
  \/ old = "processing" /\ new \in {"fulfilled", "failed"}

StatusMovesForward ==
  [][\A r \in DOMAIN tr :
       r \in DOMAIN tr' => Forward(tr[r].status, tr'[r].status)]_vars

\* C7: a failure callback that arrives for a row already fulfilled changes
\* neither the row nor the job counters, and is answered with 200
LateFailureIgnored ==
  [][\A x \in BagToSet(h) :
       (x.late /\ Acts(x))
       => /\ tr' = tr
          /\ job' = job
          /\ Returns(x) => out'.code = 200]_vars

\* C8: the terminal status written agrees with the counters at the moment
\* of the write: completed if failed_batches = 0, failed if
\* completed_batches = 0, completed_with_errors otherwise
StatusForCounters(j) ==
  IF j.failed_batches = 0 THEN "completed"
  ELSE IF j.completed_batches = 0 THEN "failed"
  ELSE "completed_with_errors"

FinalStatusAgreesWithCounters ==
  [][\A x \in BagToSet(h) :
       WritesFinal(x) => job'.status = StatusForCounters(job')]_vars

\* C9: completed_at is set exactly when the status is terminal
CompletedAtIffTerminal ==
  (job.completed_at # 0) <=> (job.status \in Terminal)

\* C10: at most one invocation of performNightlyRefresh is between taking
\* and releasing the lock, and only an invocation that took the lock
\* publishes or stamps
Working(n) == run[n].pc \in {"fetch", "projects", "stamp", "finally"}

SingleNightlyRun ==
  \A m, n \in Runs : Working(m) /\ Working(n) => m = n

\* ------------------------------------------- provider health cache
\* utils/activeService.js in one process.  hc.age counts the minute
\* boundaries since activeService was last written; hc.lastProbe is the
\* outcome of the last checkDataForSEO / checkBrightData that returned;
\* hc.waiting the callers awaiting initializationPromise, hc.rounds the
\* initializations started, hc.served the callers the initialization
\* returned to;
\* hc.got is what the last call of getActiveServiceAsync returned (the
\* synchronous getActiveService is imported by the server and the scheduler
\* but called by neither).
InitHealth ==
  /\ PipelineInit
  /\ SchedulerInit
  /\ proj = [p \in ProjectIds |->
              [scheduler_frequency |-> "null", last_nightly_run_at |-> 0]]
  /\ testIdsMissing = FALSE
  /\ \E monitors \in BOOLEAN : hc = ColdCache(monitors)
  /\ rq = NoRequest
  /\ nm = NoMessage
  /\ wa = NoShard
  /\ pb = NoProbe
  /\ rt = NoRetry

Returned(c, service) ==
  [value |-> service,
   probe |-> IF service = "null" THEN "none" ELSE c.lastProbe[service],
   age |-> c.age]

\* an initialization started by every call
initializeServicesAnew(c) ==
  [c EXCEPT !.initializationPromise = "pending", !.pc = "dfs",
            !.init = TRUE, !.rounds = @ + 1]

\* initializeServices(): one shared initializationPromise
initializeServices(c) ==
  IF c.initializationPromise = "null"
  THEN [c EXCEPT !.initializationPromise = "pending", !.pc = "dfs",
                 !.init = TRUE, !.rounds = @ + 1]
  ELSE c

startMonitoring ==
  /\ hc.monitors /\ ~hc.started
  /\ hc' = [initializeServices(hc) EXCEPT !.started = TRUE]
  /\ UNCHANGED <<coreVars, rq>>

getActiveServiceAsync ==
  /\ IF ~hc.isInitialized
     THEN /\ hc.waiting < MaxWaiting
          /\ hc' = [initializeServices(hc) EXCEPT !.waiting = @ + 1]
     ELSE hc' = [hc EXCEPT !.got = Returned(hc, hc.activeService)]
  /\ UNCHANGED <<coreVars, rq>>

\* updateActiveService() has returned service: the awaiting
\* initializeServices sets isInitialized, startMonitoring schedules the cron
\* job, a waiting getActiveServiceAsync returns the service
Settled(c, service) ==
  LET d == [c EXCEPT !.pc = "idle", !.age = 0, !.init = FALSE,
                     !.isInitialized = c.isInitialized \/ c.init,
                     !.initializationPromise =
                        IF c.init THEN "resolved" ELSE @,
                     !.cron = c.cron \/ (c.init /\ c.started),
                     !.waiting = 0]
  IN IF c.waiting > 0 /\ c.init
     THEN [d EXCEPT !.got = Returned(d, service), !.served = c.waiting]
     ELSE d

\* updateActiveService(), up to the return of checkDataForSEO()
U_DataForSEO(dataForSEOHealthy) ==
  /\ hc.pc = "dfs"
  /\ LET c == [hc EXCEPT !.lastProbe["dataforseo"] =
                           IF dataForSEOHealthy THEN "ok" ELSE "failed"]
     IN hc' = IF dataForSEOHealthy
              THEN Settled([c EXCEPT !.activeService = "dataforseo"],
                           "dataforseo")
              ELSE [c EXCEPT !.pc = "bd"]
  /\ UNCHANGED <<coreVars, rq>>

\* updateActiveService(), from the return of checkBrightData()
U_BrightData(brightDataHealthy) ==
  /\ hc.pc = "bd"
  /\ LET c == [hc EXCEPT !.lastProbe["brightdata"] =
                           IF brightDataHealthy THEN "ok" ELSE "failed"]
         service == IF brightDataHealthy THEN "brightdata" ELSE "null"
     IN hc' = Settled([c EXCEPT !.activeService = service], service)
  /\ UNCHANGED <<coreVars, rq>>

\* a minute boundary: cron "* * * * *" runs updateActiveService() if the job
\* was scheduled; a health check (two probes of at most 10 s) is over by then
Minute ==
  /\ hc.pc = "idle"
  /\ hc.monitors => hc.started
  /\ hc.age < MaxAge
  /\ hc' = [hc EXCEPT !.age = @ + 1,
                      !.pc = IF hc.cron THEN "dfs" ELSE @]
  /\ UNCHANGED <<coreVars, rq>>

NextHealth ==
  \/ startMonitoring
  \/ getActiveServiceAsync
  \/ \E dataForSEOHealthy \in BOOLEAN : U_DataForSEO(dataForSEOHealthy)
  \/ \E brightDataHealthy \in BOOLEAN : U_BrightData(brightDataHealthy)
  \/ Minute

SpecHealth == InitHealth /\ [][NextHealth]_vars

\* ------------------------------------- POST /enqueue, step by step
\* One request of the server process, with the provider health cache of
\* that process.  rq.job_batches, rq.prompts, rq.tracking_results are the
\* rows the request has inserted, rq.batches the chunks it has built,
\* rq.sent the messages it has published.
Fields == {"project_id", "user_id", "prompts", "openaiKey"}

\* res.status(code).json({error})
Answer(r, code, error) ==
  [r EXCEPT !.pc = "done", !.code = code, !.error = error]

\* the checks without the one of the service
ChecksFieldsOnly(r, service) ==
  LET q == [r EXCEPT !.service = service]
  IN IF q.missing # "none"
     THEN Answer(q, 400, "project_id, user_id, prompts and openaiKey are required")
     ELSE [q EXCEPT !.pc = "openai"]

\* from the return of getActiveServiceAsync() to the try block
Checks(r, service) ==
  LET q == [r EXCEPT !.service = service]
  IN IF service = "null"
     THEN Answer(q, 503, "All services are currently down")
     ELSE IF q.missing # "none"
     THEN Answer(q, 400, "project_id, user_id, prompts and openaiKey are required")
     ELSE IF service \notin Providers
     THEN Answer(q, 400, "Invalid service")
     ELSE [q EXCEPT !.pc = "openai"]

\* the request arrives with n prompts and possibly one required field
\* missing (prompts missing: not an array, or empty); the route awaits
\* getActiveServiceAsync()
R_Receive(missing, n) ==
  /\ rq.pc = "idle"
  /\ (missing = "prompts") = (n = 0)
  /\ LET r == [rq EXCEPT !.missing = missing, !.n = n]
     IN IF hc.isInitialized
        THEN /\ rq' = Checks(r, hc.activeService)
             /\ hc' = [hc EXCEPT !.got = Returned(hc, hc.activeService)]
        ELSE /\ hc.waiting < MaxWaiting
             /\ rq' = [r EXCEPT !.pc = "init"]
             /\ hc' = [initializeServices(hc) EXCEPT !.waiting = @ + 1]
  /\ UNCHANGED coreVars

\* the awaited initialization has resolved with a service
R_Initialized ==
  /\ rq.pc = "init"
  /\ hc.isInitialized
  /\ rq' = Checks(rq, hc.got.value)
  /\ UNCHANGED <<coreVars, hc>>

\* HTTP status of the one-token completion (0: it answered with a message)
OpenAIStatuses == {0, 401, 403, 404, 429, 500}

\* the message of the Error validateOpenAIAccess throws, "ok" if none
validateOpenAIAccess(status) ==
  CASE status = 0 -> "ok"
    [] status = 401 -> "Invalid OpenAI key."
    [] status = 429 -> "OpenAI quota/rate limit."
    [] status = 403 -> "OpenAI forbidden."
    [] status = 404 -> "Your OpenAI key has no access to model"
    [] OTHER -> "OpenAI validation failed"

\* catch (err) of the route
EnqueueCatch(r, message) == Answer(r, 500, message)

\* 1) validate the OpenAI credentials
R_Validate(status) ==
  /\ rq.pc = "openai"
  /\ LET message == validateOpenAIAccess(status)
     IN rq' = IF message = "ok" THEN [rq EXCEPT !.pc = "job"]
              ELSE EnqueueCatch(rq, message)
  /\ UNCHANGED <<coreVars, hc>>

\* 3) batch calculations, 4) insert of the job_batches row
R_InsertJob(jobError) ==
  /\ rq.pc = "job"
  /\ LET batchSize == getBatchSize(rq.n)
         totalBatches == totalBatchesFor(rq.n)
     IN rq' = IF jobError THEN EnqueueCatch(rq, "jobError")
              ELSE [rq EXCEPT !.pc = "bulk", !.totalBatches = totalBatches,
                              !.job_batches =
                                 <<[total_prompts |-> rq.n,
                                    total_batches |-> totalBatches,
                                    status |-> "pending"]>>]
  /\ UNCHANGED <<coreVars, hc>>

\* buildBulkData: prompt index + 1 is the id of its prompt row
buildBulkData(n, batchSize) ==
  [promptsData |-> [i \in 1..n |-> [id |-> i]],
   trackingData |->
     [i \in 1..n |->
        [prompt_id |-> i, status |-> "pending",
         batch_number |-> batchNumberOf(i - 1, batchSize)]],
   enriched |->
     [i \in 1..n |->
        [id |-> i, batchNumber |-> batchNumberOf(i - 1, batchSize)]]]

\* 5) build the payloads, 6) bulk inserts of prompts and tracking_results
R_BulkInsert(failing) ==
  /\ rq.pc = "bulk"
  /\ LET data == buildBulkData(rq.n, getBatchSize(rq.n))
     IN rq' =
          CASE failing = "prompts" ->
                 EnqueueCatch(rq, "Failed to insert prompts")
            [] failing = "tracking_results" ->
                 EnqueueCatch([rq EXCEPT !.prompts = data.promptsData],
                              "Failed to insert tracking results")
            [] OTHER ->
                 [rq EXCEPT !.pc = "publish", !.prompts = data.promptsData,
                            !.tracking_results = data.trackingData]
  /\ UNCHANGED <<coreVars, hc>>

\* chunkArray: the loop for (i = 0; i < arr.length; i += n)
RECURSIVE chunkFrom(_, _, _)
chunkFrom(arr, n, i) ==
  IF i < Len(arr)
  THEN <<SubSeq(arr, i + 1, IF i + n < Len(arr) THEN i + n ELSE Len(arr))>>
       \o chunkFrom(arr, n, i + n)
  ELSE <<>>

chunkArray(arr, n) == chunkFrom(arr, n, 0)

\* 8) the job is set to processing and one message is published per chunk;
\* a publish that throws is logged (lost: the chunks it happens to); 9) the
\* response
R_Publish ==
  /\ rq.pc = "publish"
  /\ LET batchSize == getBatchSize(rq.n)
         batches == chunkArray(buildBulkData(rq.n, batchSize).enriched,
                               batchSize)
     IN \E lost \in SUBSET (1..Len(batches)) :
          rq' = [rq EXCEPT !.pc = "done", !.code = 200,
                           !.job_batches[1].status = "processing",
                           !.batches = batches,
                           !.sent =
                              {[batchNumber |-> k - 1,
                                totalBatches |-> rq.totalBatches,
                                prompts |-> batches[k]] :
                                 k \in (1..Len(batches)) \ lost}]
  /\ UNCHANGED <<coreVars, hc>>

NextRequest ==
  \/ startMonitoring
  \/ \E dataForSEOHealthy \in BOOLEAN : U_DataForSEO(dataForSEOHealthy)
  \/ \E brightDataHealthy \in BOOLEAN : U_BrightData(brightDataHealthy)
  \/ Minute
  \/ \E missing \in Fields \cup {"none"}, n \in 0..MaxBody :
       R_Receive(missing, n)
  \/ R_Initialized
  \/ \E status \in OpenAIStatuses : R_Validate(status)
  \/ \E jobError \in BOOLEAN : R_InsertJob(jobError)
  \/ \E failing \in {"none", "prompts", "tracking_results"} :
       R_BulkInsert(failing)
  \/ R_Publish

SpecRequest == Init /\ [][NextRequest]_vars

\* ---------------------------------- notifications of one queue message
\* One message of a one-shard job, published by POST /enqueue or by the
\* nightly scheduler, through the worker of its topic and the callback
\* route; a message handler is two steps (the message is received, the
\* handler ends), a callback one.
\* payload of POST /enqueue: isNightly: false, the job's id, the body's email
EnqueuePayload(email) ==
  [isNightly |-> FALSE, jobBatchId |-> "job", email |-> email]

\* payload of the scheduler: email: null, jobBatchId: null, isNightly: true
NightlyPayload ==
  [isNightly |-> TRUE, jobBatchId |-> "null", email |-> "null"]

Published(payload, worker, n) ==
  [nm EXCEPT !.pc = "queued", !.worker = worker, !.prompts = n,
             !.isNightly = payload.isNightly,
             !.jobBatchId = payload.jobBatchId, !.email = payload.email]

M_Enqueue(email, worker, n) ==
  /\ nm.pc = "none"
  /\ nm' = Published(EnqueuePayload(email), worker, n)
  /\ UNCHANGED <<baseVars, hc, rq, wa, pb, rt>>

M_Nightly(worker, n) ==
  /\ nm.pc = "none"
  /\ nm' = Published(NightlyPayload, worker, n)
  /\ UNCHANGED <<baseVars, hc, rq, wa, pb, rt>>

\* transporter.sendMail
Mailed(m, kind) == [m EXCEPT !.mails[kind] = @ + 1]

\* the counters of the job move while their sum is below total_batches (1)
Progress(m) ==
  IF m.jobBatchId # "null" /\ m.counted < 1
  THEN [m EXCEPT !.counted = @ + 1] ELSE m

\* an `actualSnapshotID` check alone
SnapshotOnly(m, actualSnapshotID) == actualSnapshotID

\* if (!isNightly && actualSnapshotID): the success email of the worker
SuccessEmailDue(m, actualSnapshotID) == ~m.isNightly /\ actualSnapshotID

\* if (!isNightly && jobBatchId && typeof batchNumber !== 'undefined'): the
\* failure email of a worker (batchNumber defaults to 0)
FailureEmailDue(m) == ~m.isNightly /\ m.jobBatchId # "null"

\* if (!isNightly && jobBatchId): the submission email of the DataForSEO
\* worker
SubmissionEmailDue(m) == ~m.isNightly /\ m.jobBatchId # "null"

\* catch of a worker: for regular jobs the rows are marked, the job is
\* counted and the failure email is sent; then nack or ack
Caught(m, retryable) ==
  LET a == IF ~m.isNightly THEN Progress(m) ELSE m
      b == IF FailureEmailDue(a) THEN Mailed(a, "failed") ELSE a
  IN [b EXCEPT !.pc = IF retryable THEN "queued" ELSE "acked"]

\* subscription.on('message'): the payload is parsed
M_Receive ==
  /\ nm.pc = "queued"
  /\ nm.deliveries < MaxDeliveries
  /\ nm' = [nm EXCEPT !.pc = "handling", !.deliveries = @ + 1]
  /\ UNCHANGED <<baseVars, hc, rq, wa, pb, rt>>

Delivered(worker) ==
  /\ nm.pc = "handling"
  /\ nm.worker = worker

\* Bright Data worker, success: nightly prompts get a new row; regular jobs
\* are counted and mailed
WA_Success ==
  /\ Delivered("A")
  /\ LET a == [nm EXCEPT !.rows = IF nm.isNightly THEN @ + nm.prompts
                                  ELSE @]
         b == IF ~a.isNightly /\ a.jobBatchId # "null" THEN Progress(a)
              ELSE a
         c == IF SuccessEmailDue(b, TRUE) THEN Mailed(b, "succeeded") ELSE b
     IN nm' = [c EXCEPT !.pc = "acked"]
  /\ UNCHANGED <<baseVars, hc, rq, wa, pb, rt>>

\* Bright Data worker, failure: the loop over the results throws at some
\* prompt; the nightly rows of the prompts before it are already inserted
WA_Failure(retryable) ==
  /\ Delivered("A")
  /\ \E k \in 0..(nm.prompts - 1) :
       nm' = Caught([nm EXCEPT !.rows = IF nm.isNightly THEN @ + k ELSE @],
                    retryable)
  /\ UNCHANGED <<baseVars, hc, rq, wa, pb, rt>>

\* buildCallbackUrl: isNightly=true is appended for customData.isNightly
buildCallbackUrl(customData) == customData.isNightly

\* DataForSEO worker, success: the task is submitted with its callback URL,
\* the submission email is sent for regular jobs
WB_Success ==
  /\ Delivered("B")
  /\ LET a == [nm EXCEPT !.tasks = @ + nm.prompts,
                         !.urlNightly = buildCallbackUrl(nm)]
         b == IF SubmissionEmailDue(a) THEN Mailed(a, "submitted") ELSE a
     IN nm' = [b EXCEPT !.pc = "acked"]
  /\ UNCHANGED <<baseVars, hc, rq, wa, pb, rt>>

WB_Failure(retryable) ==
  /\ Delivered("B")
  /\ nm' = Caught(nm, retryable)
  /\ UNCHANGED <<baseVars, hc, rq, wa, pb, rt>>

\* sendCompletionEmail: `if (!email) return`
sendCompletionEmail(m) ==
  IF m.email = "null" THEN m ELSE Mailed(m, "succeeded")

\* handleJobBatchProgress: nothing without a job_batch_id; the increment
\* that reaches total_batches sends the completion email
handleJobBatchProgress(m) ==
  IF m.jobBatchId = "null" \/ m.counted >= 1 THEN m
  ELSE sendCompletionEmail(Progress(m))

\* the callback of a task; isNightly is read from the query of its URL
CB_Received ==
  /\ nm.tasks > 0
  /\ nm.callbacks < MaxCallbacks

\* status 20000 with a result: a nightly task gets its row created, a
\* regular one its stub updated and the job progressed
CB_Success ==
  /\ CB_Received
  /\ LET isNightly == nm.urlNightly
         a == [nm EXCEPT !.callbacks = @ + 1]
     IN nm' = IF isNightly THEN [a EXCEPT !.rows = @ + 1]
              ELSE handleJobBatchProgress(a)
  /\ UNCHANGED <<baseVars, hc, rq, wa, pb, rt>>

\* any other status: nothing for a nightly task, handleFailedJobBatch for a
\* regular one
CB_Failure ==
  /\ CB_Received
  /\ LET isNightly == nm.urlNightly
         a == [nm EXCEPT !.callbacks = @ + 1]
     IN nm' = IF isNightly THEN a ELSE Progress(a)
  /\ UNCHANGED <<baseVars, hc, rq, wa, pb, rt>>

NextMail ==
  \/ \E email \in {"null", "addr"}, worker \in {"A", "B"},
       n \in 1..MaxShard :
       M_Enqueue(email, worker, n)
  \/ \E worker \in {"A", "B"}, n \in 1..MaxShard : M_Nightly(worker, n)
  \/ M_Receive
  \/ WA_Success
  \/ \E retryable \in BOOLEAN : WA_Failure(retryable)
  \/ WB_Success
  \/ \E retryable \in BOOLEAN : WB_Failure(retryable)
  \/ CB_Success
  \/ CB_Failure

SpecMail == Init /\ [][NextMail]_vars

\* C11: two runs of which the second started after the first had ended never
\* both publish shards of one project less than its cadence period apart
CadencePeriod(frequency) ==
  IF frequency = "daily" THEN dayInMs
  ELSE IF frequency = "weekly" THEN 7 * dayInMs
  ELSE 30 * dayInMs

NoDoubleRunWithinCadence ==
  \A a, b \in published :
    (a[1] < b[1] /\ a[2] = b[2] /\ run[b[1]].solo)
      => b[3] - a[3] >= CadencePeriod(proj[a[2]].scheduler_frequency)

\* C12: getActiveService / getActiveServiceAsync never returns a provider
\* whose most recent probe failed
NeverReturnsFailedProvider == hc.got.probe # "failed"

\* C13: the value a reader obtains from the health cache was written at most
\* one probe interval (one minute boundary) before the read
ProbeInterval == 1

ReadNeverStalerThanInterval ==
  hc.got.value # "none" => hc.got.age <= ProbeInterval


\* C14: a worker whose processing of a shard failed because of a retryable
\* upstream error (429, 5xx, connection reset, timeout) nacks the message
UpstreamError(e) ==
  IF e = "failed after 5 retries: status 429" THEN "status 429"
  ELSE IF e = "failed after 5 retries: timeout" THEN "timeout"
  ELSE e

RetryableUpstream(e) ==
  UpstreamError(e) \in {"status 429", "ECONNRESET", "timeout"}

RetryableUpstreamNacks ==
  [][\A x \in BagToSet(h) :
       (x.kind = "A" /\ x.pc = "settle" /\ RetryableUpstream(x.err)
          /\ Acts(x))
         => msg'[x.b].state = "queued"]_vars

\* C15: when the processing of a message fails with an error that is not
\* retryable (empty results, failed snapshot, payload that does not parse),
\* the message is acked and every row of the shard is failed
FailsInTry(b) ==
  \E x \in BagToSet(h) :
    /\ x.kind = "A" /\ x.b = b /\ x.pc = "settle"
    /\ ~RetryableUpstream(x.err)
    /\ Acts(x)

FailsToParse(b) ==
  /\ msg[b].state = "queued"
  /\ msg'[b].state = "delivered"
  /\ h' = h

NonRetryableAcksAndFails ==
  [][\A b \in DOMAIN msg :
       (FailsInTry(b) \/ FailsToParse(b))
         => /\ msg'[b].state = "acked"
            /\ \A r \in ShardRows(b) : tr'[r].status = "failed"]_vars

\* C16: every shard gets at most one completion email over all deliveries
\* of its message, and exactly one once a Bright Data shard is acked
Emails(b) == mail[b].succeeded + mail[b].failed

ExactlyOneCompletionEmail ==
  \A b \in DOMAIN mail :
    /\ Emails(b) <= 1
    /\ (svc = "brightdata" /\ msg[b].state = "acked" /\ h = EmptyBag)
         => Emails(b) = 1

\* C17: at most one succeeded email is sent for a shard, however often its
\* message or callback is processed
AtMostOneSucceededEmail ==
  \A b \in DOMAIN mail : mail[b].succeeded <= 1

\* C18: when the sentiment / salience call has failed after its retries, the
\* row is still written fulfilled, with sentiment 50 and salience 0
AnalysisThrows(x) ==
  \E e \in LlmErrors :
    LET y == [x EXCEPT !.err = retryWithBackoff(e), !.pc = "catchMark"]
    IN CopiesIn(y, h') > CopiesIn(y, h)

DefaultScores(row) ==
  row.status = "fulfilled" /\ row.sentiment = 50 /\ row.salience = 0

AnalysisFailureKeepsRecord ==
  [][\A x \in BagToSet(h) :
       /\ (x.kind = "A" /\ x.pc = "result" /\ Acts(x) /\ AnalysisThrows(x))
            => DefaultScores(tr'[RowAt(x.b, x.i)])
       /\ (x.kind = "cb" /\ x.pc = "fulfil" /\ x.err # "none" /\ Acts(x))
            => DefaultScores(tr'[x.r])]_vars

\* C19: the score and count columns of a row are null exactly while the row
\* is pending or processing
ScoresNull(row) ==
  row.sentiment = Null /\ row.salience = Null /\ row.mention_count = Null

ScoresSet(row) ==
  row.sentiment # Null /\ row.salience # Null /\ row.mention_count # Null

ScoresNullIffUnfinished ==
  \A r \in DOMAIN tr :
    IF tr[r].status \in {"pending", "processing"}
    THEN ScoresNull(tr[r]) ELSE ScoresSet(tr[r])

\* C20: no job_batches row remains without its tracking_results rows
JobBatchHasTrackingResults ==
  job.status # "none" => Cardinality(DOMAIN tr) = job.total_prompts

\* the request has inserted no row
NoRows(r) ==
  r.job_batches = <<>> /\ r.prompts = <<>> /\ r.tracking_results = <<>>

\* the request got its service from getActiveServiceAsync()
GotService(r) == r.pc \notin {"idle", "init"}

\* C21: a request that finds no active provider (both probes failed) is
\* answered 503, has inserted no job_batches, prompts or tracking_results
\* row and has published no message
NoProviderAnswers503 ==
  GotService(rq) /\ rq.service = "null" =>
    rq.pc = "done" /\ rq.code = 503 /\ NoRows(rq) /\ rq.sent = {}

\* a complete request (nothing missing) answered 503 after both probes failed
NoProviderCase ==
  /\ rq.code = 503
  /\ rq.missing = "none"
  /\ \A p \in Providers : hc.lastProbe[p] = "failed"

\* C22: a request that lacks project_id, user_id, prompts or openaiKey is
\* answered 400 at once, before getActiveServiceAsync() is awaited, and
\* inserts no row
InvalidRequestAnswers400 ==
  rq.missing # "none" => rq.pc = "done" /\ rq.code = 400 /\ NoRows(rq)

\* C23: a request whose OpenAI validation probe fails with 401, 429, 403 or
\* 404 is answered 400 and inserts no job_batches, prompts or
\* tracking_results row
KeyErrors ==
  {validateOpenAIAccess(status) : status \in {401, 429, 403, 404}}

KeyProbeFailureAnswers400 ==
  rq.pc = "done" /\ rq.error \in KeyErrors => rq.code = 400 /\ NoRows(rq)

\* the request was answered "enqueued"
Enqueued(r) == r.pc = "done" /\ r.code = 200

\* ids of the prompts of the tracking_results rows stored with batch_number k
RowsOfBatch(r, k) ==
  {r.tracking_results[i].prompt_id :
     i \in {j \in DOMAIN r.tracking_results :
              r.tracking_results[j].batch_number = k}}

\* ids of the prompts a chunk carries
Carried(batch) == {batch[i].id : i \in DOMAIN batch}

\* C28: after POST /enqueue total_batches is the number of chunks built for
\* publication, the tracking_results rows with batch_number k are exactly
\* the prompts of chunk k, and every published message carries, under its
\* batchNumber, exactly the prompts of the rows with that batch_number
ShardsMatchRows ==
  Enqueued(rq) =>
    /\ rq.job_batches[1].total_batches = Len(rq.batches)
    /\ \A k \in 1..Len(rq.batches) :
         RowsOfBatch(rq, k - 1) = Carried(rq.batches[k])
    /\ \A m \in rq.sent :
         /\ m.batchNumber \in 0..(rq.job_batches[1].total_batches - 1)
         /\ m.totalBatches = rq.job_batches[1].total_batches
         /\ Carried(m.prompts) = RowsOfBatch(rq, m.batchNumber)
    /\ \A i \in DOMAIN rq.tracking_results :
         rq.tracking_results[i].batch_number \in 0..(Len(rq.batches) - 1)

\* 11 prompts enqueued in two messages, of 10 prompts and of 1
TwoShardsPublished ==
  /\ Enqueued(rq)
  /\ rq.n = 11
  /\ Cardinality(rq.sent) = 2
  /\ \E m \in rq.sent : m.batchNumber = 1 /\ Carried(m.prompts) = {11}

\* lengths of the chunks, in order
Lengths(batches) == [k \in DOMAIN batches |-> Len(batches[k])]

\* C29: for N >= 1 prompts the shard size is N if N < 5, 5 if 5 <= N <= 10
\* and 10 if N > 10; there are ceil(N / size) shards, all of that size but
\* possibly the last; 1 -> <<1>>, 4 -> <<4>>, 5 -> <<5>>, 10 -> <<5, 5>>,
\* 11 -> <<10, 1>>, 20 -> <<10, 10>>
ShardSizes ==
  Enqueued(rq) =>
    LET N == rq.n
        size == IF N < 5 THEN N ELSE IF N <= 10 THEN 5 ELSE 10
        shards == Len(rq.batches)
        lens == Lengths(rq.batches)
    IN /\ N >= 1
       /\ (shards - 1) * size < N /\ N <= shards * size
       /\ \A k \in 1..(shards - 1) : lens[k] = size
       /\ lens[shards] = N - (shards - 1) * size
       /\ rq.totalBatches = shards
       /\ N = 1 => lens = <<1>>
       /\ N = 4 => lens = <<4>>
       /\ N = 5 => lens = <<5>>
       /\ N = 10 => lens = <<5, 5>>
       /\ N = 11 => lens = <<10, 1>>
       /\ N = 20 => lens = <<10, 10>>

\* 20 prompts enqueued as two chunks of 10
TwentyInTwoShards ==
  Enqueued(rq) /\ rq.n = 20 /\ Lengths(rq.batches) = <<10, 10>>

\* C27: getActiveServiceAsync() returns nothing before an initial probe
\* round has completed; callers that arrive before that wait on one shared
\* initialization; once initialized a call returns the cached activeService
\* and starts no probe
FirstCallWaitsForProbe ==
  /\ [](/\ hc.got.value # "none" =>
             hc.isInitialized /\ \E p \in Providers : hc.lastProbe[p] # "none"
        /\ hc.rounds <= 1
        /\ hc.waiting > 0 =>
             hc.rounds = 1 /\ hc.initializationPromise = "pending"
               /\ hc.pc # "idle")
  /\ [][hc.isInitialized /\ hc'.got # hc.got =>
          /\ hc'.got.value = hc.activeService
          /\ hc'.pc = hc.pc
          /\ hc'.rounds = hc.rounds]_vars

\* two callers arrived before the first probe round was over and both got
\* its result
TwoFirstCallersServed ==
  hc.served = 2 /\ hc.rounds = 1 /\ hc.got.value # "none"

\* C25: a run that took the lock gives it back when it ends, whichever way:
\* the lock is never set while no run is between taking and releasing it,
\* and every step that takes a run out of that section (the finally of a
\* normal completion, of an early return, of a fatal error) and the abort
\* of testing mode leave the lock released
LockReleasedOnEveryExit ==
  /\ [](isRefreshRunning => \E n \in Runs : Working(n))
  /\ [][\A n \in Runs :
          \/ Working(n) /\ ~Working(n)'
          \/ run[n].pc = "topic" /\ run'[n].pc = "aborted"
          => isRefreshRunning' = FALSE]_vars

\* one run ended after publishing, another ended by an early return, and
\* the lock is free
LockFreeAfterRuns ==
  /\ ~isRefreshRunning
  /\ \E m, n \in Runs :
       /\ run[m].pc = "done" /\ run[n].pc = "done"
       /\ \E e \in published : e[1] = m
       /\ \A e \in published : e[1] # n

EmptyArraySettles(x) ==
  /\ x.kind = "A" /\ x.pc = "settle" /\ x.err = "empty results"
  /\ ShardLen(x.b) = 5
  /\ x.d = 1
  /\ Acts(x)

\* C24: when the snapshot of a 5-prompt shard resolves to an empty array,
\* the handler leaves all 5 rows of the shard failed, has incremented
\* failed_batches by one, and acknowledges the message
EmptyArrayFailsShard ==
  [][\A x \in BagToSet(h) :
       EmptyArraySettles(x) =>
         /\ \A r \in ShardRows(x.b) : tr'[r].status = "failed"
         /\ x.post > 0
         /\ msg'[x.b].state = "acked"]_vars

\* C30: no email (submitted, succeeded, failed) is sent for a nightly
\* message, by either worker or by the callback route, on success or on
\* failure
NoEmailForNightly ==
  nm.isNightly =>
    nm.mails.submitted + nm.mails.succeeded + nm.mails.failed = 0

\* a nightly message failed at the worker, was redelivered and submitted,
\* and its task got a successful and a failed callback
NightlyHandled ==
  /\ nm.isNightly
  /\ nm.deliveries = 2
  /\ nm.pc = "acked"
  /\ nm.rows >= 1
  /\ nm.callbacks >= 2

\* C32: a job with a terminal status has no tracking_results row that is
\* still pending or processing
TerminalJobHasNoOpenRow ==
  job.status \in Terminal =>
    \A r \in DOMAIN tr : tr[r].status \notin {"pending", "processing"}

\* C33: a terminal status of the job (completed, completed_with_errors,
\* failed) is never overwritten with processing or pending
TerminalStatusIsKept ==
  [][job.status \in Terminal =>
       job'.status \notin {"pending", "processing"}]_vars

\* C34: a job whose status is completed has only fulfilled rows
CompletedMeansAllFulfilled ==
  job.status = "completed" =>
    \A r \in DOMAIN tr : tr[r].status = "fulfilled"

\* ---------------------------------------------- the pipeline, scheduled
\* Node's event loop resumes every awaited step of a running handler, the
\* subscription delivers every queued message and the provider posts the
\* callback of every submitted task: no enabled step is postponed forever.
FairSpec ==
  /\ Init /\ [][Next]_vars
  /\ WF_vars(WorkerA) /\ WF_vars(WorkerB) /\ WF_vars(Callback)
  /\ WF_vars(\E b \in 0..(MaxPrompts - 1) : A_Receive(b))
  /\ WF_vars(\E b \in 0..(MaxPrompts - 1) : B_Receive(b))
  /\ WF_vars(\E t \in tasks, ok \in BOOLEAN : Cb_Receive(t, ok))

\* every shard of the job was handled to the end: each message is acked,
\* no handler is running, each row is fulfilled or failed
AllShardsFinished ==
  /\ job.status \in {"processing", "pending"} \cup Terminal
  /\ DOMAIN msg # {}
  /\ \A b \in DOMAIN msg : msg[b].state = "acked"
  /\ h = EmptyBag
  /\ \A r \in DOMAIN tr : tr[r].status \in {"fulfilled", "failed"}

\* C31: once every shard of the job has finished (all rows fulfilled or
\* failed, all messages acked), the job eventually has a terminal status
FinishedJobBecomesTerminal ==
  AllShardsFinished ~> (job.status \in Terminal)

\* C35: no callback of a submitted task is answered 404: the row stamped
\* with the task id is found by every callback handled for that task
EveryCallbackFindsItsRow ==
  out.code # 404

\* C36: a delivery that is not yet answered belongs to a running handler:
\* no handler ends leaving its message neither acked nor nacked
EveryDeliveryIsAnswered ==
  \A b \in DOMAIN msg :
    msg[b].state = "delivered" =>
      \E x \in BagToSet(h) : x.kind \in {"A", "B"} /\ x.b = b

\* C37: the rows created for a nightly shard never outnumber its prompts,
\* whatever the deliveries of its message and the callbacks of its tasks
OneRowPerNightlyPrompt ==
  nm.isNightly => nm.rows <= nm.prompts

\* ------------------------------------ Bright Data worker: result matching
\* The shard of one message and the array the snapshot returned, matched as
\* the worker does it. trackingId 0 stands for undefined (nightly prompts
\* carry no trackingId), prompt_id 0 for a result without prompt_id; the
\* database calls are taken to succeed.
ShardPrompts(isNightly) ==
  {[k \in 1..n |-> [trackingId |-> IF isNightly THEN 0 ELSE k,
                    text |-> t[k]]] :
     n \in 1..MaxShard, t \in [1..MaxShard -> {"a", "b"}]}

SnapshotResults ==
  UNION {[1..n -> [prompt_id : 0..MaxShard, prompt : {"a", "b", "c"}]] :
           n \in 0..MaxResults}

InitMatch ==
  /\ PipelineInit
  /\ SchedulerInit
  /\ proj = [p \in ProjectIds |->
              [scheduler_frequency |-> "null", last_nightly_run_at |-> 0]]
  /\ testIdsMissing = FALSE
  /\ hc = ColdCache(TRUE)
  /\ rq = NoRequest
  /\ nm = NoMessage
  /\ pb = NoProbe
  /\ rt = NoRetry
  /\ \E isNightly \in BOOLEAN :
       \E prompts \in ShardPrompts(isNightly), results \in SnapshotResults :
         wa = [NoShard EXCEPT !.pc = "poll", !.isNightly = isNightly,
                              !.prompts = prompts, !.results = results,
                              !.rows =
                                [k \in {prompts[q].trackingId :
                                          q \in DOMAIN prompts} \ {0} |->
                                   [status |-> "pending",
                                    response |-> "none"]]]

\* (p.trackingId && p.trackingId === bres.prompt_id) || p.text === bres.prompt
matches(p, bres) ==
  \/ p.trackingId # 0 /\ p.trackingId = bres.prompt_id
  \/ p.text = bres.prompt

\* prompts.find(...): the index of the first prompt that matches, 0 for
\* undefined
find(prompts, bres) ==
  IF \E q \in DOMAIN prompts : matches(prompts[q], bres)
  THEN CHOOSE q \in DOMAIN prompts :
         /\ matches(prompts[q], bres)
         /\ \A o \in 1..(q - 1) : ~matches(prompts[o], bres)
  ELSE 0

\* if (results.length === 0) throw
W_Poll ==
  /\ wa.pc = "poll"
  /\ wa' = [wa EXCEPT !.i = 1,
                      !.pc = IF Len(wa.results) = 0 THEN "thrown"
                                ELSE "results"]
  /\ UNCHANGED <<baseVars, hc, rq, nm, pb, rt>>

\* a row of a nightly prompt is inserted, the stub of a regular one updated
Written(w, q, status, response) ==
  IF w.isNightly
  THEN [w EXCEPT !.inserted = Append(@, [prompt |-> q, status |-> status,
                                         response |-> response])]
  ELSE [w EXCEPT !.rows[w.prompts[q].trackingId] =
                   [status |-> status, response |-> response]]

\* one iteration of `for (let bres of results)`
W_Result ==
  /\ wa.pc = "results"
  /\ LET bres == wa.results[wa.i]
         found == find(wa.prompts, bres)
         a == IF found = 0 THEN wa
              ELSE Written([wa EXCEPT !.processedPromptIds =
                                        @ \cup {wa.prompts[found].trackingId}],
                           found, "fulfilled", "answer_text")
     IN wa' = [a EXCEPT !.i = @ + 1,
                        !.pc = IF wa.i = Len(wa.results) THEN "unprocessed"
                                  ELSE "results"]
  /\ UNCHANGED <<baseVars, hc, rq, nm, pb, rt>>

\* prompts.filter(p => !processedPromptIds.has(p.trackingId))
unprocessedPrompts(w) ==
  {q \in DOMAIN w.prompts :
     w.prompts[q].trackingId \notin w.processedPromptIds}

RECURSIVE MarkFailed(_, _)
MarkFailed(w, todo) ==
  IF todo = {} THEN w
  ELSE LET q == CHOOSE o \in todo : \A u \in todo : o <= u
       IN MarkFailed(Written(w, q, "failed", "NoResponse"), todo \ {q})

\* every unprocessed prompt is marked failed: 'No response received from
\* BrightData'
W_Unprocessed ==
  /\ wa.pc = "unprocessed"
  /\ wa' = [MarkFailed(wa, unprocessedPrompts(wa)) EXCEPT !.pc = "done"]
  /\ UNCHANGED <<baseVars, hc, rq, nm, pb, rt>>

NextMatch ==
  \/ W_Poll
  \/ W_Result
  \/ W_Unprocessed

SpecMatch == InitMatch /\ [][NextMatch]_vars

\* a prompt of the shard has a matching result (by prompt id or by text)
HasResult(q) ==
  \E k \in DOMAIN wa.results : matches(wa.prompts[q], wa.results[k])

\* C38: after the worker has processed a non-empty result array of a regular
\* shard, the row of each prompt with a matching result is fulfilled, the
\* row of each prompt without one is failed with NoResponse
MatchedFulfilledOthersFailed ==
  (wa.pc = "done" /\ ~wa.isNightly) =>
    \A q \in DOMAIN wa.prompts :
      LET row == wa.rows[wa.prompts[q].trackingId]
      IN IF HasResult(q) THEN row.status = "fulfilled"
         ELSE row.status = "failed" /\ row.response = "NoResponse"

\* ------------------------------------------------ calls to the providers
\* One external call, attempt by attempt. The OpenAI analyses and the
\* DataForSEO task_post go through retryWithBackoff; the Bright Data trigger
\* and the snapshot download are plain axios calls of the worker.
maxRetries == 5
rateLimitBase == 2000
rateLimitCap == 30000
genericBase == 1000
genericCap == 10000
pollDelay == 30000

\* the calls made through retryWithBackoff
Wrapped == {"analyzeSentiment", "task_post"}

InitRetry ==
  /\ PipelineInit
  /\ SchedulerInit
  /\ proj = [p \in ProjectIds |->
              [scheduler_frequency |-> "null", last_nightly_run_at |-> 0]]
  /\ testIdsMissing = FALSE
  /\ hc = ColdCache(TRUE)
  /\ rq = NoRequest
  /\ nm = NoMessage
  /\ wa = NoShard
  /\ pb = NoProbe
  /\ \E call \in Wrapped \cup {"trigger", "snapshot"} :
       rt = [NoRetry EXCEPT !.pc = "calling", !.call = call]

Least(a, b) == IF a < b THEN a ELSE b

\* err.status === 429 || err.status >= 500 || ...
retryable(err) == err \in {"status 429", "status 500"}

\* wait = err.status === 429 ? Math.min(2000 * 2 ** i, 30000)
\*                           : Math.min(1000 * 2 ** i, 10000)
wait(err, i) ==
  IF err = "status 429" THEN Least(rateLimitBase * 2 ^ i, rateLimitCap)
  ELSE Least(genericBase * 2 ^ i, genericCap)

\* one pass of the loop of retryWithBackoff: return await fn(), or the catch
T_Attempt(outcome) ==
  /\ rt.pc = "calling" /\ rt.call \in Wrapped
  /\ rt.i < maxRetries
  /\ LET a == [rt EXCEPT !.attempts = @ + 1]
     IN rt' = IF outcome = "ok" THEN [a EXCEPT !.pc = "returned"]
              ELSE IF ~retryable(outcome) \/ rt.i = maxRetries - 1
              THEN [a EXCEPT !.lastErr = outcome, !.pc = "thrown"]
              ELSE [a EXCEPT !.lastErr = outcome, !.pc = "waiting",
                             !.waits = Append(@, wait(outcome, rt.i))]
  /\ UNCHANGED <<baseVars, hc, rq, nm, wa, pb>>

\* await delay(wait), then i++
T_Delay ==
  /\ rt.pc = "waiting"
  /\ rt' = [rt EXCEPT !.i = @ + 1, !.pc = "calling"]
  /\ UNCHANGED <<baseVars, hc, rq, nm, wa, pb>>

\* axios.post(.../trigger): one attempt, an error goes to the catch of the
\* handler
T_Trigger(outcome) ==
  /\ rt.pc = "calling" /\ rt.call = "trigger"
  /\ rt' = IF outcome = "ok"
           THEN [rt EXCEPT !.attempts = @ + 1, !.pc = "returned"]
           ELSE [rt EXCEPT !.attempts = @ + 1, !.lastErr = outcome,
                           !.pc = "thrown"]
  /\ UNCHANGED <<baseVars, hc, rq, nm, wa, pb>>

\* do { await delay(30000); axios.get(.../snapshot/id) } while
\* (!Array.isArray(results)): an array ends the loop, status failed or an
\* HTTP error throws, any other status polls again
T_Snapshot(answer) ==
  /\ rt.pc = "calling" /\ rt.call = "snapshot"
  /\ rt.attempts < MaxPolls
  /\ LET a == [rt EXCEPT !.attempts = @ + 1, !.waits = Append(@, pollDelay)]
     IN rt' = CASE answer = "array" -> [a EXCEPT !.pc = "returned"]
                [] answer = "running" -> a
                [] OTHER -> [a EXCEPT !.lastErr = answer, !.pc = "thrown"]
  /\ UNCHANGED <<baseVars, hc, rq, nm, wa, pb>>

NextRetry ==
  \/ \E outcome \in {"ok", "status 429", "status 500", "status 400"} :
       T_Attempt(outcome)
  \/ T_Delay
  \/ \E outcome \in {"ok", "status 429", "status 500", "status 400"} :
       T_Trigger(outcome)
  \/ \E answer \in {"array", "running", "failed", "status 500"} :
       T_Snapshot(answer)

SpecRetry == InitRetry /\ [][NextRetry]_vars

\* the waits the claim gives for the errors seen so far
BackoffOf(err, i) ==
  IF err = "status 429" THEN Least(2 * 1000 * 2 ^ i, 30 * 1000)
  ELSE Least(1000 * 2 ^ i, 10 * 1000)

\* C40: every external call is attempted at most 5 times, is retried after a
\* retryable failure while attempts are left, and waits min(1 s * 2^i, 10 s)
\* (min(2 s * 2^i, 30 s) after a 429) before retry i
EveryCallBacksOff ==
  /\ rt.attempts <= 5
  /\ \A k \in DOMAIN rt.waits :
       rt.waits[k] \in {BackoffOf("status 429", k - 1),
                        BackoffOf("status 500", k - 1)}
  /\ (rt.pc = "thrown" /\ retryable(rt.lastErr)) => rt.attempts = 5

\* ------------------------------------------------ probes of the providers
\* One process running updateActiveService, with the answer each provider
\* gives to its probe: the HTTP status (0: no answer within 10 s) and the
\* status_code of the body (0: none).
\* a body with a status_code comes with 200 or 401, status_code 20000 with
\* 200 only
ProbeAnswers ==
  {r \in [status : {0, 200, 204, 401, 429, 503},
         status_code : {0, 20000, 40100}] :
     /\ r.status_code # 0 => r.status \in {200, 401}
     /\ r.status_code = 20000 => r.status = 200}

\* axios.get with validateStatus: status < 500 throws for no answer and for
\* 5xx
Throws(response) == response.status = 0 \/ response.status >= 500

\* a probe that takes every 2xx answer for healthy
checkBrightDataAny2xx(response) ==
  IF Throws(response) THEN FALSE
  ELSE response.status = 429 \/ response.status \in 200..299

\* checkBrightData: 429 is healthy; otherwise response.status === 200
checkBrightData(response) ==
  IF Throws(response) THEN FALSE
  ELSE IF response.status = 429 THEN TRUE
  ELSE response.status = 200

\* checkDataForSEO: 429 is healthy; otherwise response.data?.status_code ===
\* 20000
checkDataForSEO(response) ==
  IF Throws(response) THEN FALSE
  ELSE IF response.status = 429 THEN TRUE
  ELSE response.status_code = 20000

InitProbe ==
  /\ PipelineInit
  /\ SchedulerInit
  /\ proj = [p \in ProjectIds |->
              [scheduler_frequency |-> "null", last_nightly_run_at |-> 0]]
  /\ testIdsMissing = FALSE
  /\ hc = ColdCache(TRUE)
  /\ rq = NoRequest
  /\ nm = NoMessage
  /\ wa = NoShard
  /\ rt = NoRetry
  /\ \E d \in ProbeAnswers, b \in ProbeAnswers :
       pb = [NoProbe EXCEPT !.pc = "dataforseo", !.dataforseo = d,
                            !.brightdata = b, !.rounds = 1]

\* updateActiveService: dataForSEOHealthy = await checkDataForSEO()
P_DataForSEO ==
  /\ pb.pc = "dataforseo"
  /\ pb' = IF checkDataForSEO(pb.dataforseo)
           THEN [pb EXCEPT !.activeService = "dataforseo", !.pc = "done",
                           !.probed = {"dataforseo"}]
           ELSE [pb EXCEPT !.pc = "brightdata", !.probed = {"dataforseo"}]
  /\ UNCHANGED <<baseVars, hc, rq, nm, wa, rt>>

\* updateActiveService: brightDataHealthy = await checkBrightData(); with
\* both probes unhealthy activeService = null
P_BrightData ==
  /\ pb.pc = "brightdata"
  /\ pb' = [pb EXCEPT !.activeService = IF checkBrightData(pb.brightdata)
                                           THEN "brightdata" ELSE "null",
                      !.pc = "done", !.probed = @ \cup {"brightdata"}]
  /\ UNCHANGED <<baseVars, hc, rq, nm, wa, rt>>

\* cron "* * * * *": the next round, the providers answering anew
P_Minute(d, b) ==
  /\ pb.pc = "done"
  /\ pb.rounds < MaxRounds
  /\ pb' = [pb EXCEPT !.pc = "dataforseo", !.dataforseo = d,
                      !.brightdata = b, !.rounds = @ + 1, !.probed = {}]
  /\ UNCHANGED <<baseVars, hc, rq, nm, wa, rt>>

NextProbe ==
  \/ P_DataForSEO
  \/ P_BrightData
  \/ \E d \in ProbeAnswers, b \in ProbeAnswers : P_Minute(d, b)

SpecProbe == InitProbe /\ [][NextProbe]_vars

\* the provider chosen from the health of the two probes: B (DataForSEO)
\* first, then A (Bright Data), then null
Chosen(healthyB, healthyA) ==
  IF healthyB THEN "dataforseo"
  ELSE IF healthyA THEN "brightdata" ELSE "null"

Answered(response) == response.status # 0 /\ response.status < 500

Is2xxOr429(response) ==
  response.status \in 200..299 \/ response.status = 429

====
